---- MODULE Spec2Model ----
(***************************************************************************)
(* Model of the contract-review front end: the root component App owns     *)
(* three pieces of React state (contracts, selectedContract, reviewResult),*)
(* ContractUpload forwards the first selected file to App.handleUpload,    *)
(* ContractList renders one row per contract whose button calls            *)
(* App.reviewContract, and ReviewPanel is rendered once a review exists.   *)
(***************************************************************************)
EXTENDS Integers, Sequences, FiniteSets

\* ---------------------------------------------------------------- bounds
MaxEvents == 4      \* DOM events dispatched in one page session
MaxClock  == 2      \* largest value Date.now() returns in the model
MaxFiles  == 2      \* files in one file-selection (FileList length)
NumNames  == 2      \* distinct file names the user may pick

NamePool  == <<"x.pdf", "y.pdf", "z.pdf", "w.pdf">>
FileNames == {NamePool[i] : i \in 1..NumNames}

\* JavaScript null / undefined: a record no contract, file or element equals.
NULL == [null |-> TRUE]

\* A browser File object; only its name is ever read.
Files == [name : FileNames]

\* The FileList values a change event may carry (length 0..MaxFiles).
FileLists == UNION {[1..n -> Files] : n \in 0..MaxFiles}

VARIABLES
    contracts,          \* App: useState([])
    selectedContract,   \* App: useState(null)
    reviewResult,       \* App: useState(null)
    now,                \* the wall clock read by Date.now()
    inputFiles,         \* the <input type="file"> selection left by handleChange
    dom,                \* the element tree App last rendered
    crashed,            \* an exception escaped a state updater (tree unmounted)
    events,             \* history: DOM events handled so far
    uploads,            \* history: calls of onUpload (App.handleUpload)
    reviews,            \* history: calls of onReview (App.reviewContract)
    lastEvent           \* history: the event handled last

vars == <<contracts, selectedContract, reviewResult, now, inputFiles, dom,
          crashed, events, uploads, reviews, lastEvent>>

\* ------------------------------------------------------ ContractUpload.js

\* Variant: the last selected file is taken instead of the first.
FirstFileLast(files) == IF Len(files) > 0 THEN files[Len(files)] ELSE NULL

\* const file = e.target.files[0];   (undefined when the FileList is empty)
FirstFile(files) == IF Len(files) > 0 THEN files[1] ELSE NULL

\* Variant: the guard is dropped, every change event is forwarded.
FileGuardAlways(file) == TRUE

\* if (file) { ... }   a File object is truthy, undefined is falsy
FileGuard(file) == file # NULL

\* ------------------------------------------------------------------ App

\* { id: Date.now(), name: file.name }
NewContract(file, t) == [id |-> t, name |-> file.name]

\* App state as one record, so that a handler's whole effect is one value.
AppState(c, s, r) == [contracts |-> c, selectedContract |-> s, reviewResult |-> r]

\* Variant: the new entry is put in front, [{...}, ...prev].
handleUploadPrepend(st, file, t) ==
    [st EXCEPT !.contracts = <<NewContract(file, t)>> \o @]

\* Variant: prev is forgotten, setContracts([{...}]).
handleUploadReplace(st, file, t) ==
    [st EXCEPT !.contracts = <<NewContract(file, t)>>]

\* Variant: an upload also selects the new contract and clears the review.
handleUploadAutoSelect(st, file, t) ==
    [st EXCEPT !.contracts = Append(@, NewContract(file, t)),
               !.selectedContract = NewContract(file, t),
               !.reviewResult = NULL]

\* setContracts((prev) => [...prev, { id: Date.now(), name: file.name }]);
handleUpload(st, file, t) ==
    [st EXCEPT !.contracts = Append(@, NewContract(file, t))]

\* The literal object passed to setReviewResult.
MockReview ==
    [missingClauses  |-> <<"Data Protection Clause", "Breach Notification Clause">>,
     risks           |-> <<"Non-compliance with GDPR Article 33">>,
     recommendations |-> <<"Add Data Protection Clause referencing GDPR requirements.",
                           "Include Breach Notification Clause with 72-hour notification period.">>]

\* Variant: findings are accumulated onto the previous result.
reviewContractAccumulate(st, contract) ==
    [st EXCEPT !.selectedContract = contract,
               !.reviewResult =
                   IF @ = NULL THEN MockReview
                   ELSE [missingClauses  |-> @.missingClauses \o MockReview.missingClauses,
                         risks           |-> @.risks \o MockReview.risks,
                         recommendations |-> @.recommendations \o MockReview.recommendations]]

\* Variant: clicking the selected contract again deselects it.
reviewContractToggle(st, contract) ==
    IF st.selectedContract = contract
    THEN [st EXCEPT !.selectedContract = NULL, !.reviewResult = NULL]
    ELSE [st EXCEPT !.selectedContract = contract, !.reviewResult = MockReview]

\* Variant: the setReviewResult call is missing.
reviewContractNoResult(st, contract) ==
    [st EXCEPT !.selectedContract = contract]

\* setSelectedContract(contract); setReviewResult({...});
reviewContract(st, contract) ==
    [st EXCEPT !.selectedContract = contract, !.reviewResult = MockReview]

\* ------------------------------------------------------- ContractList

\* One React.Fragment per contract: the name cell and the Review button,
\* whose onClick closure holds that contract.
ContractRow(contract) ==
    [key |-> contract.id, name |-> contract.name, onReviewArg |-> contract]

\* Variant: the empty test is off by one (contracts.length <= 1).
ContractListOffByOne(cs) ==
    IF Len(cs) <= 1
    THEN NULL
    ELSE [section |-> "Contracts",
          rows    |-> [i \in 1..Len(cs) |-> ContractRow(cs[i])]]

\* if (contracts.length === 0) return null;  else a section of contracts.map(...)
ContractList(cs) ==
    IF Len(cs) = 0
    THEN NULL
    ELSE [section |-> "Contracts",
          rows    |-> [i \in 1..Len(cs) |-> ContractRow(cs[i])]]

\* -------------------------------------------------------- ReviewPanel

ReviewPanel(contract, review) ==
    [section         |-> "Review Results",
     title           |-> contract.name,
     missingClauses  |-> review.missingClauses,
     risks           |-> review.risks,
     recommendations |-> review.recommendations]

\* {selectedContract && reviewResult && (<ReviewPanel ... />)}
ShowReviewPanel(s, r) == s # NULL /\ r # NULL

\* The part of App's returned tree that depends on state.
App(st) ==
    [list  |-> ContractList(st.contracts),
     panel |-> IF ShowReviewPanel(st.selectedContract, st.reviewResult)
               THEN ReviewPanel(st.selectedContract, st.reviewResult)
               ELSE NULL]

\* ------------------------------------------------------------ behaviour

Init ==
    /\ contracts = <<>>
    /\ selectedContract = NULL
    /\ reviewResult = NULL
    /\ now \in 0..MaxClock
    /\ inputFiles = <<>>
    /\ dom = App(AppState(<<>>, NULL, NULL))
    /\ crashed = FALSE
    /\ events = 0
    /\ uploads = 0
    /\ reviews = 0
    /\ lastEvent = [kind |-> "none"]

\* Commit a handler's state updates and re-render.
Commit(st) ==
    /\ contracts' = st.contracts
    /\ selectedContract' = st.selectedContract
    /\ reviewResult' = st.reviewResult
    /\ dom' = App(st)

\* The wall clock advances between events (millisecond resolution).
Tick ==
    /\ ~crashed
    /\ now < MaxClock
    /\ now' = now + 1
    /\ UNCHANGED <<contracts, selectedContract, reviewResult, inputFiles, dom,
                   crashed, events, uploads, reviews, lastEvent>>

\* ContractUpload.handleChange on a change event carrying `files`,
\* including the onUpload call it makes into App.handleUpload.
handleChange(files) ==
    LET file == FirstFile(files)
        st   == AppState(contracts, selectedContract, reviewResult)
    IN  /\ ~crashed
        /\ events < MaxEvents
        /\ events' = events + 1
        /\ lastEvent' = [kind |-> "change", files |-> files]
        /\ IF FileGuard(file)
           THEN /\ uploads' = uploads + 1
                /\ IF file = NULL
                   THEN \* undefined.name throws inside the updater
                        /\ crashed' = TRUE
                        /\ dom' = NULL
                        /\ inputFiles' = files
                        /\ UNCHANGED <<contracts, selectedContract, reviewResult>>
                   ELSE /\ Commit(handleUpload(st, file, now))
                        /\ inputFiles' = <<>>      \* e.target.value = null
                        /\ UNCHANGED crashed
           ELSE /\ inputFiles' = files
                /\ UNCHANGED <<contracts, selectedContract, reviewResult, dom,
                               crashed, uploads>>
        /\ UNCHANGED <<now, reviews>>

ChangeEvent == \E files \in FileLists : handleChange(files)

\* A click on the Review button of row i of the rendered list.
ClickReview ==
    /\ ~crashed
    /\ events < MaxEvents
    /\ dom.list # NULL
    /\ \E i \in DOMAIN dom.list.rows :
         LET contract == dom.list.rows[i].onReviewArg
             st       == AppState(contracts, selectedContract, reviewResult)
         IN  /\ Commit(reviewContract(st, contract))
             /\ lastEvent' = [kind |-> "review", contract |-> contract, row |-> i]
    /\ events' = events + 1
    /\ reviews' = reviews + 1
    /\ UNCHANGED <<now, inputFiles, crashed, uploads>>

Next == Tick \/ ChangeEvent \/ ClickReview

Spec == Init /\ [][Next]_vars

\* ------------------------------------------------------------ properties

\* The step just taken handled a change event / a Review click.
ChangeStep == events' = events + 1 /\ lastEvent'.kind = "change"
ReviewStep == events' = events + 1 /\ lastEvent'.kind = "review"
\* The step just taken called App.handleUpload.
UploadStep == uploads' = uploads + 1

\* C1: a change event with a non-empty selection appends exactly one entry
\* at the end of the contract list, named after the first selected file;
\* the rest of the list is as before and further files add nothing.
C1_UploadAppendsFirstFile ==
    [][ (ChangeStep /\ Len(lastEvent'.files) > 0)
          => /\ Len(contracts') = Len(contracts) + 1
             /\ SubSeq(contracts', 1, Len(contracts)) = contracts
             /\ contracts'[Len(contracts')].name = lastEvent'.files[1].name ]_vars

C1_Witness ==
    /\ lastEvent.kind = "change"
    /\ Len(lastEvent.files) = 2
    /\ lastEvent.files[1].name # lastEvent.files[2].name
    /\ Len(contracts) >= 2
    /\ contracts[Len(contracts)].name = lastEvent.files[1].name

\* C2: every review, of any contract and from any prior state, leaves the
\* one fixed review record: the two named missing clauses, one risk and two
\* recommendations; a repeated review does not lengthen any list.
C2_ReviewIsFixed ==
    [][ ReviewStep
          => /\ reviewResult'.missingClauses =
                    <<"Data Protection Clause", "Breach Notification Clause">>
             /\ Len(reviewResult'.risks) = 1
             /\ Len(reviewResult'.recommendations) = 2
             /\ (reviewResult # NULL => reviewResult' = reviewResult) ]_vars

C2_Witness ==
    /\ reviews >= 2
    /\ lastEvent.kind = "review"
    /\ lastEvent.row = 2
    /\ reviewResult # NULL
    /\ Len(reviewResult.missingClauses) = 2

\* C3: the contract list is append-only: every step keeps the old list as
\* a prefix of the new one (same entries at the same positions), so the
\* length never decreases.
C3_AppendOnly ==
    [][ /\ Len(contracts') >= Len(contracts)
        /\ SubSeq(contracts', 1, Len(contracts)) = contracts ]_vars

C3_Witness ==
    /\ Len(contracts) >= 3
    /\ reviews >= 1
    /\ contracts[1].name # contracts[2].name

\* C4: the selected contract is null or an entry of the current list, and
\* a Review click always carries an entry of the list.
C4_SelectionIsMember ==
    /\ (selectedContract # NULL
          => \E i \in 1..Len(contracts) : contracts[i] = selectedContract)
    /\ (lastEvent.kind = "review"
          => \E i \in 1..Len(contracts) : contracts[i] = lastEvent.contract)

C4_Witness ==
    /\ selectedContract # NULL
    /\ Len(contracts) >= 3
    /\ selectedContract = contracts[1]
    /\ selectedContract # contracts[Len(contracts)]
    /\ lastEvent.kind = "change"

\* C5: a change event with an empty selection does not call onUpload and
\* leaves the contract list, the selection and the review result unchanged;
\* no exception is raised.
C5_EmptySelectionIgnored ==
    [][ (ChangeStep /\ Len(lastEvent'.files) = 0)
          => /\ uploads' = uploads
             /\ UNCHANGED <<contracts, selectedContract, reviewResult>>
             /\ ~crashed' ]_vars

C5_Witness ==
    /\ lastEvent.kind = "change"
    /\ Len(lastEvent.files) = 0
    /\ Len(contracts) >= 1
    /\ selectedContract # NULL
    /\ ~crashed

\* C6: the rendered list is absent when there are no contracts; otherwise
\* it has one row per entry, in list order, showing the entry's name with
\* a Review button bound to that entry.
C6_OneRowPerContract ==
    /\ (Len(contracts) = 0 => dom.list = NULL)
    /\ (Len(contracts) > 0
          => /\ dom.list # NULL
             /\ Len(dom.list.rows) = Len(contracts)
             /\ \A i \in 1..Len(contracts) :
                   /\ dom.list.rows[i].name = contracts[i].name
                   /\ dom.list.rows[i].onReviewArg = contracts[i])

C6_Witness ==
    /\ Len(contracts) = 1
    /\ dom.list # NULL
    /\ Len(dom.list.rows) = 1
    /\ dom.list.rows[1].name = contracts[1].name

\* C7: a review of c makes c the selection; a non-null selection never
\* becomes null again; the selection changes at review steps only.
C7_SelectionReplacedNeverCleared ==
    [][ /\ (ReviewStep => selectedContract' = lastEvent'.contract)
        /\ (selectedContract # NULL => selectedContract' # NULL)
        /\ (selectedContract' # selectedContract => ReviewStep) ]_vars

C7_Witness ==
    /\ reviews >= 2
    /\ lastEvent.kind = "review"
    /\ selectedContract = lastEvent.contract
    /\ selectedContract = contracts[1]
    /\ Len(contracts) >= 2

\* C8: a handleUpload call leaves the selection and the review result
\* unchanged; a review leaves the contract list unchanged.
C8_DisjointFrames ==
    [][ /\ (UploadStep => UNCHANGED <<selectedContract, reviewResult>>)
        /\ (ReviewStep => UNCHANGED contracts) ]_vars

C8_Witness ==
    /\ uploads >= 2
    /\ reviews >= 1
    /\ lastEvent.kind = "change"
    /\ Len(lastEvent.files) > 0
    /\ selectedContract # NULL
    /\ reviewResult # NULL

\* C9: the identifiers of the entries of the contract list are pairwise
\* distinct, also when two uploads read the same clock value.
C9_UniqueIds ==
    \A i, j \in 1..Len(contracts) :
        i # j => contracts[i].id # contracts[j].id

\* C10: the selection is non-null exactly when the review result is, the
\* review panel is rendered exactly when a review has occurred, and then
\* with a non-null contract and a non-null review result.
C10_SelectionIffReview ==
    /\ (selectedContract # NULL) <=> (reviewResult # NULL)
    /\ (dom.panel # NULL) <=> (reviews >= 1)
    /\ (dom.panel # NULL
          => /\ selectedContract # NULL
             /\ reviewResult # NULL
             /\ dom.panel.title = selectedContract.name
             /\ dom.panel.missingClauses = reviewResult.missingClauses)

C10_Witness ==
    /\ reviews >= 1
    /\ dom.panel # NULL
    /\ selectedContract # NULL
    /\ reviewResult # NULL
    /\ lastEvent.kind = "change"

====
